---- MODULE Spec2Model ----
(***************************************************************************)
(* RVVM RISC-V CPU definitions (src/src/riscv_cpu.h): the hart's register  *)
(* accessors, the compressed register translation, the opcode identifiers  *)
(* and the decoder tables they index, the M-extension divide edge cases.   *)
(*                                                                         *)
(* An N-bit machine word is modelled by the set of its set bit positions   *)
(* (a subset of 0..N-1): 0 is {}, 1 is {0}, all-ones is 0..N-1, the        *)
(* minimum signed value is {N-1}.  The words keep their full width of 32   *)
(* or 64 bits.                                                             *)
(***************************************************************************)
EXTENDS Integers, Sequences, FiniteSets, TLC

VARIABLES
    xlen,           \* build flavour: 64 when RV64 is defined, else 32
    registers,      \* vm->registers[]
    fpu_registers,  \* vm->fpu_registers[]
    fs,             \* the FS field of the status CSR
    ret,            \* the last accessor call and what it returned
    decoder,        \* "uninit" before riscv_decoder_init_rv*, then "ready"
    opcodes,        \* vm->decoder.opcodes[512]
    opcodes_c,      \* vm->decoder.opcodes_c[32]
    exts,           \* the extension initialisers that ran so far
    fpu_f,          \* the last riscv_f_enable call: "none", "on", "off"
    fpu_d,          \* the last riscv_d_enable call: "none", "on", "off"
    stage,          \* the dispatch loop: "idle", "boundary", "exec"
    budget,         \* instructions left in the running batch
    event,          \* the external event flag
    trap,           \* a handler of the running batch raised a trap
    insn,           \* the instruction being executed
    fetched,        \* instructions fetched by the running batch
    m               \* the divide/remainder handler call and its result

accVars == <<registers, fpu_registers, fs, ret>>
decVars == <<decoder, opcodes, opcodes_c, exts, fpu_f, fpu_d>>
runVars == <<stage, budget, event, trap, insn, fetched>>
vars == <<xlen, registers, fpu_registers, fs, ret, decoder, opcodes, opcodes_c,
          exts, fpu_f, fpu_d, stage, budget, event, trap, insn, fetched, m>>

(***************************************************************************)
(* Machine words as sets of bit positions                                  *)
(***************************************************************************)
Bits(w) == 0 .. (w - 1)

Zero == {}

One == {0}

AllOnes(w) == Bits(w)

MaxOf(S) == CHOOSE x \in S : \A y \in S : y <= x

\* unsigned a < b
ULess(a, b) == a # b /\ MaxOf((a \ b) \cup (b \ a)) \in b

\* the carry into bit i of a + b + c0: generated at some lower bit (or carried
\* in) and propagated by every bit between
Carry(a, b, c0, i) ==
    \/ \E j \in 0 .. (i - 1) :
          j \in a /\ j \in b /\ \A k \in (j + 1) .. (i - 1) : k \in a \/ k \in b
    \/ c0 /\ \A k \in 0 .. (i - 1) : k \in a \/ k \in b

\* a + b + c0 modulo 2^w
AddC(a, b, c0, w) ==
    {i \in Bits(w) : ((i \in a) # (i \in b)) # Carry(a, b, c0, i)}

Add(a, b, w) == AddC(a, b, FALSE, w)

Neg(a, w) == AddC(Bits(w) \ a, Zero, TRUE, w)

Sub(a, b, w) == AddC(a, Bits(w) \ b, TRUE, w)

IsNeg(a, w) == (w - 1) \in a

Abs(a, w) == IF IsNeg(a, w) THEN Neg(a, w) ELSE a

\* one step of restoring division of the unsigned n by d # 0, at bit i;
\* qr is <<quotient, remainder>> so far
UDivBit(n, d, qr, i, w) ==
    LET r1 == {j + 1 : j \in qr[2]} \cup (IF i \in n THEN {0} ELSE {})
    IN  IF ULess(r1, d) THEN <<qr[1], r1>>
        ELSE <<qr[1] \cup {i}, Sub(r1, d, w + 1)>>

RECURSIVE UDivBits(_, _, _, _, _, _)
\* the steps for bits hi down to lo, in that order
UDivBits(n, d, qr, hi, lo, w) ==
    IF hi = lo THEN UDivBit(n, d, qr, hi, w)
    ELSE LET mid == (hi + lo + 1) \div 2
             upper == UDivBits(n, d, qr, hi, mid, w)
         IN  IF Len(upper) = 2 THEN UDivBits(n, d, upper, mid - 1, lo, w) ELSE upper

UDiv(n, d, w) == UDivBits(n, d, <<{}, {}>>, w - 1, 0, w)[1]

URem(n, d, w) == UDivBits(n, d, <<{}, {}>>, w - 1, 0, w)[2]

(***************************************************************************)
(* Register accessors                                                      *)
(***************************************************************************)
REGISTERS_MAX == 32

FPU_REGISTERS_MAX == 32

REGISTER_X8 == 8

FS_OFF == 0

FS_INITIAL == 1

FS_CLEAN == 2

FS_DIRTY == 3

riscv_read_register(reg) == registers[reg]

riscv_write_register_discard_x0(regs, reg, data) ==
    IF reg = 0 THEN regs ELSE [regs EXCEPT ![reg] = data]

\* vm->registers[reg] = data
riscv_write_register(regs, reg, data) == [regs EXCEPT ![reg] = data]

\* fpu_set_fs(vm, value): replaces the FS field
fpu_set_fs(value) == value

\* the canonical quiet NaN, 0x7fc00000
CanonicalNaN32 == 22 .. 30

\* the upper 32 bits of a 64-bit slot, 0xFFFFFFFF00000000
NanBox == 32 .. 63

\* write_float_nanbox(addr, val): the float in the low half, all-ones above it
write_float_nanbox(val) == val \cup NanBox

\* read_float_nanbox(addr): the low half when the box is valid, else the canonical NaN
read_float_nanbox(slot) ==
    IF NanBox \subseteq slot THEN slot \cap Bits(32) ELSE CanonicalNaN32

fpu_read_register32_unchecked(reg) == fpu_registers[reg] \cap Bits(32)

fpu_read_register32(reg) == read_float_nanbox(fpu_registers[reg])

fpu_read_register64(reg) == fpu_registers[reg]

fpu_write_register32_fs_unchanged(fregs, reg, val) ==
    [fs |-> fs, regs |-> [fregs EXCEPT ![reg] = write_float_nanbox(val)]]

\* fpu_set_fs(vm, FS_DIRTY); write_float_nanbox(&vm->fpu_registers[reg], val)
fpu_write_register32(fregs, reg, val) ==
    [fs |-> fpu_set_fs(FS_DIRTY), regs |-> [fregs EXCEPT ![reg] = write_float_nanbox(val)]]

\* fpu_set_fs(vm, FS_DIRTY); vm->fpu_registers[reg] = val
fpu_write_register64(fregs, reg, val) ==
    [fs |-> fpu_set_fs(FS_DIRTY), regs |-> [fregs EXCEPT ![reg] = val]]

riscv_c_reg_no_offset(reg) == reg

\* translate compressed register encoding into normal
riscv_c_reg(reg) == REGISTER_X8 + reg

(***************************************************************************)
(* Inputs of the accessor calls                                            *)
(***************************************************************************)
RegInputs == {0, 5}

FRegInputs == {0, 31}

XData == {Zero, One, AllOnes(xlen)}

\* 0.0f, 1.0f (0x3F800000), 0xFFFFFFFF
F32Data == {Zero, 23 .. 29, Bits(32)}

\* 1.0 (0x3FF0000000000000), 0xFFFFFFFE3F800000 (one bit short of a box),
\* 0xFFFFFFFF3F800000 (a boxed 1.0f)
F64Data == {52 .. 61, (23 .. 29) \cup (33 .. 63), (23 .. 29) \cup NanBox}

NoRet == [op |-> "none", reg |-> 0, val |-> Zero, idx |-> 0]

ReadRegister(reg) ==
    /\ ret' = [op |-> "riscv_read_register", reg |-> reg,
               val |-> riscv_read_register(reg), idx |-> 0]
    /\ UNCHANGED <<xlen, registers, fpu_registers, fs, decVars, runVars, m>>

WriteRegister(reg, data) ==
    /\ registers' = riscv_write_register(registers, reg, data)
    /\ ret' = [op |-> "riscv_write_register", reg |-> reg, val |-> data, idx |-> 0]
    /\ UNCHANGED <<xlen, fpu_registers, fs, decVars, runVars, m>>

FpuReadRegister32(reg) ==
    /\ ret' = [op |-> "fpu_read_register32", reg |-> reg,
               val |-> fpu_read_register32(reg), idx |-> 0]
    /\ UNCHANGED <<xlen, registers, fpu_registers, fs, decVars, runVars, m>>

FpuWriteRegister32(reg, val) ==
    /\ fs' = fpu_write_register32(fpu_registers, reg, val).fs
    /\ fpu_registers' = fpu_write_register32(fpu_registers, reg, val).regs
    /\ ret' = [op |-> "fpu_write_register32", reg |-> reg, val |-> val, idx |-> 0]
    /\ UNCHANGED <<xlen, registers, decVars, runVars, m>>

FpuReadRegister64(reg) ==
    /\ ret' = [op |-> "fpu_read_register64", reg |-> reg,
               val |-> fpu_read_register64(reg), idx |-> 0]
    /\ UNCHANGED <<xlen, registers, fpu_registers, fs, decVars, runVars, m>>

FpuWriteRegister64(reg, val) ==
    /\ fs' = fpu_write_register64(fpu_registers, reg, val).fs
    /\ fpu_registers' = fpu_write_register64(fpu_registers, reg, val).regs
    /\ ret' = [op |-> "fpu_write_register64", reg |-> reg, val |-> val, idx |-> 0]
    /\ UNCHANGED <<xlen, registers, decVars, runVars, m>>

CReg(reg) ==
    /\ ret' = [op |-> "riscv_c_reg", reg |-> reg, val |-> Zero, idx |-> riscv_c_reg(reg)]
    /\ UNCHANGED <<xlen, registers, fpu_registers, fs, decVars, runVars, m>>

(***************************************************************************)
(* Opcode identifiers                                                      *)
(* full width: func7[25] func3[14:12] opcode[6:2]; compressed: func3[15:13]*)
(* opcode[1:0]                                                             *)
(***************************************************************************)
\* U/J type instructions
RVI_LUI == \HD
RVI_AUIPC == \H5
RVI_JAL == \H1B
\* R-type instructions
RVI_SLLI == \H24
RVI_SRLI_SRAI == \HA4
RVI_ADD_SUB == \HC
RVI_SLL == \H2C
RVI_SLT == \H4C
RVI_SLTU == \H6C
RVI_XOR == \H8C
RVI_SRL_SRA == \HAC
RVI_OR == \HCC
RVI_AND == \HEC
\* I/S/B type instructions
RVI_JALR == \H19
RVI_BEQ == \H18
RVI_BNE == \H38
RVI_BLT == \H98
RVI_BGE == \HB8
RVI_BLTU == \HD8
RVI_BGEU == \HF8
RVI_LB == \H0
RVI_LH == \H20
RVI_LW == \H40
RVI_LBU == \H80
RVI_LHU == \HA0
RVI_SB == \H8
RVI_SH == \H28
RVI_SW == \H48
RVI_ADDI == \H4
RVI_SLTI == \H44
RVI_SLTIU == \H64
RVI_XORI == \H84
RVI_ORI == \HC4
RVI_ANDI == \HE4
\* RV64I-only, R-type
RV64I_ADDIW == \H6
RV64I_SLLIW == \H26
RV64I_SRLIW_SRAIW == \HA6
RV64I_ADDW_SUBW == \HE
RV64I_SLLW == \H2E
RV64I_SRLW_SRAW == \HAE
\* RV64I-only, I/S/B type
RV64I_LWU == \HC0
RV64I_LD == \H60
RV64I_SD == \H68
\* RVC, opcode 0
RVC_ADDI4SPN == \H0
RVC_FLD == \H4
RVC_LW == \H8
RVC_FLW == \HC
RVC_RESERVED1 == \H10
RVC_FSD == \H14
RVC_SW == \H18
RVC_FSW == \H1C
RV64C_SD == \H1C
RV64C_LD == \HC
\* RVC, opcode 1
RVC_ADDI == \H1
RVC_JAL == \H5
RVC_LI == \H9
RVC_ADDI16SP_LUI == \HD
RVC_ALOPS1 == \H11
RVC_J == \H15
RVC_BEQZ == \H19
RVC_BNEZ == \H1D
RV64C_ADDIW == \H5
\* RVC, opcode 2
RVC_SLLI == \H2
RVC_FLDSP == \H6
RVC_LWSP == \HA
RVC_FLWSP == \HE
RVC_ALOPS2 == \H12
RVC_FSDSP == \H16
RVC_SWSP == \H1A
RVC_FSWSP == \H1E
RV64C_LDSP == \HE
RV64C_SDSP == \H1E
\* RVM, R-type
RVM_MUL_without_bit25 == \HC
RVM_MUL == \H10C
RVM_MULH == \H12C
RVM_MULHSU == \H14C
RVM_MULHU == \H16C
RVM_DIV == \H18C
RVM_DIVU == \H1AC
RVM_REM == \H1CC
RVM_REMU == \H1EC
\* RV64M-only, R-type
RV64M_MULW == \H10E
RV64M_DIVW == \H18E
RV64M_DIVUW == \H1AE
RV64M_REMW == \H1CE
RV64M_REMUW == \H1EE
\* RVA, RV64A, I/S/B type
RVA_ATOMIC_W == \H4B
RV64A_ATOMIC_D == \H6B
\* RV32F
RVF_FLW_as_double_load == \H61
RVF_FLW == \H41
RVF_FSW == \H49
RVF_FMADD == \H10
RVF_FMSUB == \H11
RVF_FNMSUB == \H12
RVF_FNMADD == \H13
RVF_OTHER == \H14
\* RV32D
RVD_FLW == \H61
RVD_FSW == \H69
RVD_FMADD == \H110
RVD_FMSUB == \H111
RVD_FNMSUB == \H112
RVD_FNMADD == \H113
RVD_OTHER == \H114

(***************************************************************************)
(* Decoder tables and installers                                           *)
(***************************************************************************)
RECURSIVE BitOr(_, _)
\* a | b on naturals
BitOr(a, b) ==
    IF a = 0 THEN b
    ELSE IF b = 0 THEN a
    ELSE (IF a % 2 = 1 \/ b % 2 = 1 THEN 1 ELSE 0) + 2 * BitOr(a \div 2, b \div 2)

\* a << n on naturals
Shl(a, n) == a * (2 ^ n)

OPCODES_MAX == 512

OPCODES_C_MAX == 32

riscv_illegal_insn == "riscv_illegal_insn"

riscv_c_illegal_insn == "riscv_c_illegal_insn"

\* a table slot never written
NULL == "NULL"

\* the decoder tables of a hart before riscv_decoder_init_rv*
NoTables == [full |-> [i \in 0 .. (OPCODES_MAX - 1) |-> NULL],
             c |-> [i \in 0 .. (OPCODES_C_MAX - 1) |-> NULL]]

\* vm->decoder.opcodes[opcode] = func
riscv_install_opcode_R(t, opcode, func) ==
    [t EXCEPT !.full = [@ EXCEPT ![opcode] = func]]

\* for (f3 = 0; f3 < n; ++f3) opcodes[opcode | (f3 << 5)] = func
InstallSpan(tbl, opcode, func, n) ==
    LET span == {BitOr(opcode, Shl(f3, 5)) : f3 \in 0 .. (n - 1)}
    IN  [i \in DOMAIN tbl |-> IF i \in span THEN func ELSE tbl[i]]

\* for every funct3 and bit 25: vm->decoder.opcodes[opcode | (f3 << 5)] = func
riscv_install_opcode_UJ(t, opcode, func) ==
    [t EXCEPT !.full = InstallSpan(@, opcode, func, 16)]

\* vm->decoder.opcodes[opcode] = func; vm->decoder.opcodes[opcode | 0x100] = func
riscv_install_opcode_ISB(t, opcode, func) ==
    [t EXCEPT !.full = [@ EXCEPT ![opcode] = func, ![BitOr(opcode, \H100)] = func]]

\* vm->decoder.opcodes_c[opcode] = func
riscv_install_opcode_C(t, opcode, func) ==
    [t EXCEPT !.c = [@ EXCEPT ![opcode] = func]]

\* an R-type identifier whose funct3 is an operand (rounding mode), installed
\* for every funct3
riscv_install_opcode_R_funct3(t, opcode, func) ==
    [t EXCEPT !.full = InstallSpan(@, opcode, func, 8)]

\* the table slots one call of an installer writes
Slots(kind, opcode) ==
    CASE kind = "R" -> {opcode}
      [] kind = "ISB" -> {opcode, BitOr(opcode, \H100)}
      [] kind = "UJ" -> {BitOr(opcode, Shl(f3, 5)) : f3 \in 0 .. 15}
      [] kind = "RF3" -> {BitOr(opcode, Shl(f3, 5)) : f3 \in 0 .. 7}
      [] kind = "C" -> {opcode}

Install(t, e) ==
    CASE e.kind = "R" -> riscv_install_opcode_R(t, e.op, e.fn)
      [] e.kind = "ISB" -> riscv_install_opcode_ISB(t, e.op, e.fn)
      [] e.kind = "UJ" -> riscv_install_opcode_UJ(t, e.op, e.fn)
      [] e.kind = "RF3" -> riscv_install_opcode_R_funct3(t, e.op, e.fn)
      [] e.kind = "C" -> riscv_install_opcode_C(t, e.op, e.fn)

RECURSIVE InstallRange(_, _, _, _)
\* the calls list[lo] .. list[hi], in order
InstallRange(t, list, lo, hi) ==
    IF lo > hi THEN t
    ELSE IF lo = hi THEN Install(t, list[lo])
    ELSE LET mid == (lo + hi) \div 2
             first == InstallRange(t, list, lo, mid)
         IN  IF DOMAIN first # {} THEN InstallRange(first, list, mid + 1, hi) ELSE first

\* the calls of one initialiser, in order
InstallAll(t, list) == InstallRange(t, list, 1, Len(list))

E(kind, op, fn) == [kind |-> kind, op |-> op, fn |-> fn]

riscv_decoder_init_leaves_last_slot ==
    [full |-> [i \in 0 .. (OPCODES_MAX - 1) |->
                 IF i < OPCODES_MAX - 1 THEN riscv_illegal_insn ELSE NULL],
     c |-> [i \in 0 .. (OPCODES_C_MAX - 1) |-> riscv_c_illegal_insn]]

\* riscv_decoder_init_rv32 / _rv64: every slot starts as the illegal-instruction handler
riscv_decoder_init ==
    [full |-> [i \in 0 .. (OPCODES_MAX - 1) |-> riscv_illegal_insn],
     c |-> [i \in 0 .. (OPCODES_C_MAX - 1) |-> riscv_c_illegal_insn]]

(***************************************************************************)
(* Extension initialisers: the installer calls of each module              *)
(***************************************************************************)
IList ==
    << E("UJ", RVI_LUI, "riscv_i_lui"), E("UJ", RVI_AUIPC, "riscv_i_auipc"),
       E("UJ", RVI_JAL, "riscv_i_jal"),
       E("R", RVI_SLLI, "riscv_i_slli"), E("R", RVI_SRLI_SRAI, "riscv_i_srli_srai"),
       E("R", RVI_ADD_SUB, "riscv_i_add_sub"), E("R", RVI_SLL, "riscv_i_sll"),
       E("R", RVI_SLT, "riscv_i_slt"), E("R", RVI_SLTU, "riscv_i_sltu"),
       E("R", RVI_XOR, "riscv_i_xor"), E("R", RVI_SRL_SRA, "riscv_i_srl_sra"),
       E("R", RVI_OR, "riscv_i_or"), E("R", RVI_AND, "riscv_i_and"),
       E("ISB", RVI_JALR, "riscv_i_jalr"), E("ISB", RVI_BEQ, "riscv_i_beq"),
       E("ISB", RVI_BNE, "riscv_i_bne"), E("ISB", RVI_BLT, "riscv_i_blt"),
       E("ISB", RVI_BGE, "riscv_i_bge"), E("ISB", RVI_BLTU, "riscv_i_bltu"),
       E("ISB", RVI_BGEU, "riscv_i_bgeu"), E("ISB", RVI_LB, "riscv_i_lb"),
       E("ISB", RVI_LH, "riscv_i_lh"), E("ISB", RVI_LW, "riscv_i_lw"),
       E("ISB", RVI_LBU, "riscv_i_lbu"), E("ISB", RVI_LHU, "riscv_i_lhu"),
       E("ISB", RVI_SB, "riscv_i_sb"), E("ISB", RVI_SH, "riscv_i_sh"),
       E("ISB", RVI_SW, "riscv_i_sw"), E("ISB", RVI_ADDI, "riscv_i_addi"),
       E("ISB", RVI_SLTI, "riscv_i_slti"), E("ISB", RVI_SLTIU, "riscv_i_sltiu"),
       E("ISB", RVI_XORI, "riscv_i_xori"), E("ISB", RVI_ORI, "riscv_i_ori"),
       E("ISB", RVI_ANDI, "riscv_i_andi") >>

I64List ==
    << E("R", RV64I_ADDIW, "riscv64i_addiw"), E("R", RV64I_SLLIW, "riscv64i_slliw"),
       E("R", RV64I_SRLIW_SRAIW, "riscv64i_srliw_sraiw"),
       E("R", RV64I_ADDW_SUBW, "riscv64i_addw_subw"), E("R", RV64I_SLLW, "riscv64i_sllw"),
       E("R", RV64I_SRLW_SRAW, "riscv64i_srlw_sraw"),
       E("ISB", RV64I_LWU, "riscv64i_lwu"), E("ISB", RV64I_LD, "riscv64i_ld"),
       E("ISB", RV64I_SD, "riscv64i_sd") >>

CList ==
    << E("C", RVC_ADDI4SPN, "riscv_c_addi4spn"), E("C", RVC_FLD, "riscv_c_fld"),
       E("C", RVC_LW, "riscv_c_lw"), E("C", RVC_FSD, "riscv_c_fsd"),
       E("C", RVC_SW, "riscv_c_sw"), E("C", RVC_ADDI, "riscv_c_addi"),
       E("C", RVC_LI, "riscv_c_li"), E("C", RVC_ADDI16SP_LUI, "riscv_c_addi16sp_lui"),
       E("C", RVC_ALOPS1, "riscv_c_alops1"), E("C", RVC_J, "riscv_c_j"),
       E("C", RVC_BEQZ, "riscv_c_beqz"), E("C", RVC_BNEZ, "riscv_c_bnez"),
       E("C", RVC_SLLI, "riscv_c_slli"), E("C", RVC_FLDSP, "riscv_c_fldsp"),
       E("C", RVC_LWSP, "riscv_c_lwsp"), E("C", RVC_ALOPS2, "riscv_c_alops2"),
       E("C", RVC_FSDSP, "riscv_c_fsdsp"), E("C", RVC_SWSP, "riscv_c_swsp") >>

\* only exists on RV32
C32List ==
    << E("C", RVC_FLW, "riscv_c_flw"), E("C", RVC_FSW, "riscv_c_fsw"),
       E("C", RVC_JAL, "riscv_c_jal"), E("C", RVC_FLWSP, "riscv_c_flwsp"),
       E("C", RVC_FSWSP, "riscv_c_fswsp") >>

\* replace them on RV64
C64List ==
    << E("C", RV64C_LD, "riscv64c_ld"), E("C", RV64C_SD, "riscv64c_sd"),
       E("C", RV64C_ADDIW, "riscv64c_addiw"), E("C", RV64C_LDSP, "riscv64c_ldsp"),
       E("C", RV64C_SDSP, "riscv64c_sdsp") >>

MList ==
    << E("R", RVM_MUL, "riscv_m_mul"), E("R", RVM_MULH, "riscv_m_mulh"),
       E("R", RVM_MULHSU, "riscv_m_mulhsu"), E("R", RVM_MULHU, "riscv_m_mulhu"),
       E("R", RVM_DIV, "riscv_m_div"), E("R", RVM_DIVU, "riscv_m_divu"),
       E("R", RVM_REM, "riscv_m_rem"), E("R", RVM_REMU, "riscv_m_remu") >>

M64List ==
    << E("R", RV64M_MULW, "riscv64m_mulw"), E("R", RV64M_DIVW, "riscv64m_divw"),
       E("R", RV64M_DIVUW, "riscv64m_divuw"), E("R", RV64M_REMW, "riscv64m_remw"),
       E("R", RV64M_REMUW, "riscv64m_remuw") >>

AList == << E("ISB", RVA_ATOMIC_W, "riscv_a_atomic_w") >>

A64List == << E("ISB", RV64A_ATOMIC_D, "riscv64a_atomic_d") >>

FList ==
    << E("ISB", RVF_FLW, "riscv_f_flw"), E("ISB", RVF_FSW, "riscv_f_fsw"),
       E("RF3", RVF_FMADD, "riscv_f_fmadd"), E("RF3", RVF_FMSUB, "riscv_f_fmsub"),
       E("RF3", RVF_FNMSUB, "riscv_f_fnmsub"), E("RF3", RVF_FNMADD, "riscv_f_fnmadd"),
       E("RF3", RVF_OTHER, "riscv_f_other") >>

DList ==
    << E("ISB", RVD_FLW, "riscv_d_fld"), E("ISB", RVD_FSW, "riscv_d_fsd"),
       E("RF3", RVD_FMADD, "riscv_d_fmadd"), E("RF3", RVD_FMSUB, "riscv_d_fmsub"),
       E("RF3", RVD_FNMSUB, "riscv_d_fnmsub"), E("RF3", RVD_FNMADD, "riscv_d_fnmadd"),
       E("RF3", RVD_OTHER, "riscv_d_other") >>

\* the handlers of a list replaced by the illegal-instruction handler
Disabled(list) == [i \in DOMAIN list |-> [list[i] EXCEPT !.fn = riscv_illegal_insn]]

\* riscv32i_init / riscv64i_init
riscv_i_init(t) == InstallAll(t, IF xlen = 64 THEN IList \o I64List ELSE IList)

\* riscv32c_init / riscv64c_init
riscv_c_init(t) == InstallAll(t, IF xlen = 64 THEN CList \o C64List ELSE CList \o C32List)

\* riscv32m_init / riscv64m_init
riscv_m_init(t) == InstallAll(t, IF xlen = 64 THEN MList \o M64List ELSE MList)

\* riscv32a_init / riscv64a_init
riscv_a_init(t) == InstallAll(t, IF xlen = 64 THEN AList \o A64List ELSE AList)

\* riscv32f_enable / riscv64f_enable
riscv_f_enable(t, enable) == InstallAll(t, IF enable THEN FList ELSE Disabled(FList))

\* riscv32d_enable / riscv64d_enable
riscv_d_enable(t, enable) == InstallAll(t, IF enable THEN DList ELSE Disabled(DList))

\* riscv_decoder_enable_fpu: both floating-point extensions at once
riscv_decoder_enable_fpu(t, enable) == riscv_d_enable(riscv_f_enable(t, enable), enable)

Tables == [full |-> opcodes, c |-> opcodes_c]

OnOff(enable) == IF enable THEN "on" ELSE "off"

SetTables(t) == opcodes' = t.full /\ opcodes_c' = t.c

DecoderInit ==
    /\ decoder = "uninit"
    /\ decoder' = "ready"
    /\ SetTables(riscv_decoder_init)
    /\ UNCHANGED <<xlen, accVars, exts, fpu_f, fpu_d, runVars, m>>

Configurable == decoder = "ready" /\ stage = "idle"

IInit ==
    /\ Configurable
    /\ SetTables(riscv_i_init(Tables))
    /\ exts' = exts \cup {"i"}
    /\ UNCHANGED <<xlen, accVars, decoder, fpu_f, fpu_d, runVars, m>>

CInit ==
    /\ Configurable
    /\ SetTables(riscv_c_init(Tables))
    /\ exts' = exts \cup {"c"}
    /\ UNCHANGED <<xlen, accVars, decoder, fpu_f, fpu_d, runVars, m>>

MInit ==
    /\ Configurable
    /\ SetTables(riscv_m_init(Tables))
    /\ exts' = exts \cup {"m"}
    /\ UNCHANGED <<xlen, accVars, decoder, fpu_f, fpu_d, runVars, m>>

AInit ==
    /\ Configurable
    /\ SetTables(riscv_a_init(Tables))
    /\ exts' = exts \cup {"a"}
    /\ UNCHANGED <<xlen, accVars, decoder, fpu_f, fpu_d, runVars, m>>

FEnable(enable) ==
    /\ Configurable
    /\ SetTables(riscv_f_enable(Tables, enable))
    /\ fpu_f' = OnOff(enable)
    /\ UNCHANGED <<xlen, accVars, decoder, exts, fpu_d, runVars, m>>

DEnable(enable) ==
    /\ Configurable
    /\ SetTables(riscv_d_enable(Tables, enable))
    /\ fpu_d' = OnOff(enable)
    /\ UNCHANGED <<xlen, accVars, decoder, exts, fpu_f, runVars, m>>

DecoderEnableFpu(enable) ==
    /\ Configurable
    /\ SetTables(riscv_decoder_enable_fpu(Tables, enable))
    /\ fpu_f' = OnOff(enable)
    /\ fpu_d' = OnOff(enable)
    /\ UNCHANGED <<xlen, accVars, decoder, exts, runVars, m>>

(***************************************************************************)
(* Decoder and dispatch loop                                               *)
(***************************************************************************)
MaxBudget == 2

\* flw f0, 0(x0)
INSN_FLW == \H2007

\* add x1, x2, x3
INSN_ADD == \H3100B3

\* mul x1, x2, x3
INSN_MUL == \H23100B3

\* c.addi x1, 1
INSN_C_ADDI == \H85

\* a 32-bit encoding of an opcode no extension defines
INSN_UNDEFINED == \H7F

Program == {INSN_FLW, INSN_ADD, INSN_MUL, INSN_C_ADDI, INSN_UNDEFINED}

\* the low 2 bits of the fetched unit are not 3
IsCompressed(w) == w % 4 # 3

\* func7[25] func3[14:12] opcode[6:2]
riscv_opcode_id(w) ==
    ((w \div (2 ^ 25)) % 2) * 256 + ((w \div (2 ^ 12)) % 8) * 32 + ((w \div 4) % 32)

\* func3[15:13] opcode[1:0]
riscv_c_opcode_id(w) == ((w \div (2 ^ 13)) % 8) * 4 + (w % 4)

\* the handler the decoder resolves an instruction word to
Lookup(w) ==
    IF IsCompressed(w) THEN opcodes_c[riscv_c_opcode_id(w)] ELSE opcodes[riscv_opcode_id(w)]

\* handlers that go through the memory interface and may fault
MemoryHandlers == {"riscv_f_flw"}

\* whether running a handler raises a guest trap
HandlerTraps(h) ==
    IF h \in {riscv_illegal_insn, riscv_c_illegal_insn} THEN {TRUE}
    ELSE IF h \in MemoryHandlers THEN {TRUE, FALSE}
    ELSE {FALSE}

\* the batch stops at an instruction boundary
BatchOver == budget = 0 \/ trap \/ event

riscv_run_till_event_ignores_event == budget = 0 \/ trap

\* the loop condition of riscv_run_till_event, tested between instructions
riscv_run_till_event_stops == BatchOver

RunTillEvent(b) ==
    /\ Configurable
    /\ stage' = "boundary"
    /\ budget' = b
    /\ trap' = FALSE
    /\ fetched' = 0
    /\ UNCHANGED <<xlen, accVars, decVars, event, insn, m>>

LoopFetch(w) ==
    /\ stage = "boundary"
    /\ ~riscv_run_till_event_stops
    /\ stage' = "exec"
    /\ insn' = w
    /\ fetched' = fetched + 1
    /\ UNCHANGED <<xlen, accVars, decVars, budget, event, trap, m>>

LoopExecute ==
    /\ stage = "exec"
    /\ \E t \in HandlerTraps(Lookup(insn)) : trap' = t
    /\ budget' = budget - 1
    /\ stage' = "boundary"
    /\ UNCHANGED <<xlen, accVars, decVars, event, insn, fetched, m>>

LoopReturn ==
    /\ stage = "boundary"
    /\ riscv_run_till_event_stops
    /\ stage' = "idle"
    /\ budget' = 0
    /\ insn' = 0
    /\ fetched' = 0
    /\ UNCHANGED <<xlen, accVars, decVars, event, trap, m>>

\* another thread raises the event flag
SetEvent ==
    /\ ~event
    /\ event' = TRUE
    /\ UNCHANGED <<xlen, accVars, decVars, stage, budget, trap, insn, fetched, m>>

\* the host clears it between batches
ClearEvent ==
    /\ stage = "idle"
    /\ event
    /\ event' = FALSE
    /\ UNCHANGED <<xlen, accVars, decVars, stage, budget, trap, insn, fetched, m>>

LoopStep == (\E w \in Program : LoopFetch(w)) \/ LoopExecute \/ LoopReturn

(***************************************************************************)
(* M extension: divide and remainder                                       *)
(***************************************************************************)
DIV_OVERFLOW_RS1_of_rv32 == {31}

\* (sxlen_t)0x8000000000000000ULL under RV64, (sxlen_t)0x80000000U otherwise
DIV_OVERFLOW_RS1 == IF xlen = 64 THEN {63} ELSE {31}

Result(v) == [crash |-> FALSE, val |-> v]

\* what a build can do on undefined behaviour of / and %: a host trap, or some value
Undefined(a) == {[crash |-> TRUE, val |-> Zero]} \cup {Result(v) : v \in {Zero, a, AllOnes(xlen)}}

\* the C expression a / b on sxlen_t
SDivC(a, b) ==
    IF b = Zero \/ (a = {xlen - 1} /\ b = AllOnes(xlen)) THEN Undefined(a)
    ELSE LET q == UDiv(Abs(a, xlen), Abs(b, xlen), xlen)
         IN  {Result(IF IsNeg(a, xlen) # IsNeg(b, xlen) THEN Neg(q, xlen) ELSE q)}

\* the C expression a % b on sxlen_t
SRemC(a, b) ==
    IF b = Zero \/ (a = {xlen - 1} /\ b = AllOnes(xlen)) THEN Undefined(a)
    ELSE LET r == URem(Abs(a, xlen), Abs(b, xlen), xlen)
         IN  {Result(IF IsNeg(a, xlen) THEN Neg(r, xlen) ELSE r)}

\* the C expression a / b on xlen_t
UDivC(a, b) == IF b = Zero THEN Undefined(a) ELSE {Result(UDiv(a, b, xlen))}

\* the C expression a % b on xlen_t
URemC(a, b) == IF b = Zero THEN Undefined(a) ELSE {Result(URem(a, b, xlen))}

riscv_m_div(reg1, reg2) ==
    IF reg1 = DIV_OVERFLOW_RS1 /\ reg2 = AllOnes(xlen) THEN {Result(DIV_OVERFLOW_RS1)}
    ELSE IF reg2 # Zero THEN SDivC(reg1, reg2)
    ELSE {Result(AllOnes(xlen))}

riscv_m_divu(reg1, reg2) ==
    IF reg2 # Zero THEN UDivC(reg1, reg2) ELSE {Result(AllOnes(xlen))}

riscv_m_rem(reg1, reg2) ==
    IF reg1 = DIV_OVERFLOW_RS1 /\ reg2 = AllOnes(xlen) THEN {Result(Zero)}
    ELSE IF reg2 # Zero THEN SRemC(reg1, reg2)
    ELSE {Result(reg1)}

riscv_m_remu(reg1, reg2) ==
    IF reg2 # Zero THEN URemC(reg1, reg2) ELSE {Result(reg1)}

\* 0, 1, 5, 7, -1, -5, the minimum signed value
MData == {Zero, One, {0, 2}, {0, 1, 2}, AllOnes(xlen), Neg({0, 2}, xlen), {xlen - 1}}

MCall(op, outs) ==
    /\ \E o \in outs : m' = [m EXCEPT !.op = op, !.out = o]
    /\ UNCHANGED <<xlen, accVars, decVars, runVars>>

MDiv == MCall("DIV", riscv_m_div(m.rs1, m.rs2))

MDivu == MCall("DIVU", riscv_m_divu(m.rs1, m.rs2))

MRem == MCall("REM", riscv_m_rem(m.rs1, m.rs2))

MRemu == MCall("REMU", riscv_m_remu(m.rs1, m.rs2))

(***************************************************************************)
(* Specifications                                                          *)
(***************************************************************************)
AccStart ==
    /\ registers = [r \in 0 .. (REGISTERS_MAX - 1) |-> Zero]
    /\ fpu_registers = [r \in 0 .. (FPU_REGISTERS_MAX - 1) |-> Zero]
    /\ ret = NoRet

DecStart ==
    /\ decoder = "uninit"
    /\ opcodes = NoTables.full
    /\ opcodes_c = NoTables.c
    /\ exts = {}
    /\ fpu_f = "none"
    /\ fpu_d = "none"

RunStart ==
    /\ stage = "idle"
    /\ budget = 0
    /\ event = FALSE
    /\ trap = FALSE
    /\ insn = 0
    /\ fetched = 0

NoCall == [op |-> "none", rs1 |-> Zero, rs2 |-> Zero, out |-> Result(Zero)]

\* the register accessors of one hart
InitAcc ==
    /\ xlen \in {32, 64}
    /\ AccStart
    /\ fs \in {FS_OFF, FS_INITIAL, FS_CLEAN, FS_DIRTY}
    /\ DecStart
    /\ RunStart
    /\ m = NoCall

NextAcc ==
    \/ \E reg \in RegInputs : ReadRegister(reg)
    \/ \E reg \in RegInputs, data \in XData : WriteRegister(reg, data)
    \/ \E reg \in FRegInputs : FpuReadRegister32(reg)
    \/ \E reg \in FRegInputs, val \in F32Data : FpuWriteRegister32(reg, val)
    \/ \E reg \in FRegInputs : FpuReadRegister64(reg)
    \/ \E reg \in FRegInputs, val \in F64Data : FpuWriteRegister64(reg, val)
    \/ \E reg \in 0 .. 7 : CReg(reg)

SpecAcc == InitAcc /\ [][NextAcc]_vars

\* the decoder tables of one hart and its dispatch loop
InitDec ==
    /\ xlen \in {32, 64}
    /\ AccStart
    /\ fs = FS_OFF
    /\ DecStart
    /\ RunStart
    /\ m = NoCall

Configure ==
    \/ DecoderInit
    \/ IInit
    \/ CInit
    \/ MInit
    \/ AInit
    \/ \E enable \in BOOLEAN : FEnable(enable)
    \/ \E enable \in BOOLEAN : DEnable(enable)
    \/ \E enable \in BOOLEAN : DecoderEnableFpu(enable)

SpecDec == InitDec /\ [][Configure]_vars

NextRun ==
    \/ Configure
    \/ \E b \in 0 .. MaxBudget : RunTillEvent(b)
    \/ \E w \in Program : LoopFetch(w)
    \/ LoopExecute
    \/ LoopReturn
    \/ SetEvent
    \/ ClearEvent

SpecRun == InitDec /\ [][NextRun]_vars

\* riscv_run_till_event is a blocking call: once entered, the loop keeps stepping
FairSpecRun == SpecRun /\ WF_vars(LoopStep)

\* the divide and remainder handlers on every pair of operands
InitM ==
    /\ xlen \in {32, 64}
    /\ AccStart
    /\ fs = FS_OFF
    /\ DecStart
    /\ RunStart
    /\ m \in {[NoCall EXCEPT !.rs1 = a, !.rs2 = b] : a \in MData, b \in MData}

NextM == MDiv \/ MDivu \/ MRem \/ MRemu

SpecM == InitM /\ [][NextM]_vars

(***************************************************************************)
(* Properties of the register accessors (SpecAcc)                          *)
(***************************************************************************)

C4_FpWriteSetsDirty ==
    [][/\ ret'.op \in {"fpu_write_register32", "fpu_write_register64"} => fs' = 3
       /\ ret'.op \in {"riscv_read_register", "riscv_write_register"} => fs' = fs]_vars

C4_Witness ==
    /\ ret.op = "fpu_write_register64"
    /\ fs = 3
    /\ fpu_registers[ret.reg] = ret.val

\* C5: a single-precision write sets the upper 32 bits of the slot to all-ones
\* and a following single-precision read returns the value written; a slot whose
\* upper 32 bits are not all-ones reads as the canonical quiet NaN 0x7fc00000.
C5_NanBoxRoundTrip ==
    /\ ret.op = "fpu_write_register32" =>
          /\ (32 .. 63) \subseteq fpu_registers[ret.reg]
          /\ fpu_read_register32(ret.reg) = ret.val
    /\ \A reg \in 0 .. 31 :
          ~((32 .. 63) \subseteq fpu_registers[reg]) => fpu_read_register32(reg) = 22 .. 30
    /\ ret.op = "fpu_read_register32" /\ ~((32 .. 63) \subseteq fpu_registers[ret.reg]) =>
          ret.val = 22 .. 30

C5_Witness ==
    /\ ret.op = "fpu_read_register32"
    /\ fpu_registers[ret.reg] = (23 .. 29) \cup (33 .. 63)
    /\ ret.val = 22 .. 30

\* C7: riscv_c_reg maps the 3-bit field r to register r + 8: a bijection from
\* 0..7 onto 8..15.
C7_CompressedRegister ==
    /\ \A r \in 0 .. 7 : riscv_c_reg(r) = r + 8
    /\ {riscv_c_reg(r) : r \in 0 .. 7} = 8 .. 15
    /\ \A r1, r2 \in 0 .. 7 : riscv_c_reg(r1) = riscv_c_reg(r2) => r1 = r2
    /\ ret.op = "riscv_c_reg" => ret.idx = ret.reg + 8 /\ ret.idx \in 8 .. 15

C7_Witness == ret.op = "riscv_c_reg" /\ ret.reg = 7 /\ ret.idx = 15

(***************************************************************************)
(* Properties of the divide and remainder handlers (SpecM)                 *)
(***************************************************************************)
RECURSIVE MulBits(_, _, _, _, _)
\* the sum of a << i over the set bits i of b in lo..hi, modulo 2^w
MulBits(a, b, lo, hi, w) ==
    IF b \cap (lo .. hi) = {} THEN {}
    ELSE IF lo = hi THEN {j + lo : j \in a} \cap Bits(w)
    ELSE LET mid == (lo + hi) \div 2
         IN  Add(MulBits(a, b, lo, mid, w), MulBits(a, b, mid + 1, hi, w), w)

Mul(a, b, w) == MulBits(a, b, 0, w - 1, w)

\* q and r are the truncated signed quotient and remainder of a by b # 0
IsSignedQuotRem(a, b, q, r, w) ==
    /\ Add(Mul(q, b, w), r, w) = a
    /\ ULess(Abs(r, w), Abs(b, w))
    /\ r = Zero \/ IsNeg(r, w) = IsNeg(a, w)
    /\ q = Zero \/ IsNeg(q, w) = (IsNeg(a, w) # IsNeg(b, w))

\* q and r are the unsigned quotient and remainder of a by b # 0
IsUnsignedQuotRem(a, b, q, r, w) ==
    /\ Add(Mul(q, b, w), r, w) = a
    /\ ULess(r, b)
    /\ ~ULess(a, q)

OtherHalf(outs) == (CHOOSE o \in outs : TRUE).val

\* C6: for both widths and every operand pair the divide and remainder handlers
\* never trap; by 0, DIV and DIVU give all-ones and REM and REMU the dividend;
\* the minimum signed value by -1 gives DIV the dividend and REM 0; every other
\* pair gives the truncated quotient and remainder.
C6_DivideEdgeCases ==
    m.op # "none" =>
        LET a == m.rs1
            b == m.rs2
            v == m.out.val
            min == {xlen - 1}
            minus1 == Bits(xlen)
        IN  /\ ~m.out.crash
            /\ b = Zero =>
                  /\ m.op \in {"DIV", "DIVU"} => v = minus1
                  /\ m.op \in {"REM", "REMU"} => v = a
            /\ a = min /\ b = minus1 =>
                  /\ m.op = "DIV" => v = a
                  /\ m.op = "REM" => v = Zero
            /\ b # Zero /\ ~(a = min /\ b = minus1) =>
                  /\ m.op = "DIV" => IsSignedQuotRem(a, b, v, OtherHalf(SRemC(a, b)), xlen)
                  /\ m.op = "REM" => IsSignedQuotRem(a, b, OtherHalf(SDivC(a, b)), v, xlen)
            /\ b # Zero =>
                  /\ m.op = "DIVU" => IsUnsignedQuotRem(a, b, v, OtherHalf(URemC(a, b)), xlen)
                  /\ m.op = "REMU" => IsUnsignedQuotRem(a, b, OtherHalf(UDivC(a, b)), v, xlen)

C6_Witness ==
    /\ xlen = 64
    /\ m.op = "DIV"
    /\ m.rs1 = {63}
    /\ m.rs2 = Bits(64)
    /\ m.out = [crash |-> FALSE, val |-> {63}]

(***************************************************************************)
(* Properties of the decoder tables (SpecDec)                              *)
(***************************************************************************)
\* the installer calls made so far by the initialisers that ran and by the last
\* F and D enable calls, in one fixed order
CallsOf(done, f, d) ==
    (IF "i" \in done THEN (IF xlen = 64 THEN IList \o I64List ELSE IList) ELSE <<>>)
    \o (IF "c" \in done THEN (IF xlen = 64 THEN CList \o C64List ELSE CList \o C32List)
        ELSE <<>>)
    \o (IF "m" \in done THEN (IF xlen = 64 THEN MList \o M64List ELSE MList) ELSE <<>>)
    \o (IF "a" \in done THEN (IF xlen = 64 THEN AList \o A64List ELSE AList) ELSE <<>>)
    \o (IF f = "on" THEN FList ELSE IF f = "off" THEN Disabled(FList) ELSE <<>>)
    \o (IF d = "on" THEN DList ELSE IF d = "off" THEN Disabled(DList) ELSE <<>>)

\* the slots of the full-width table that some list entry with a real handler covers
FullSlotsOf(list) ==
    UNION {Slots(list[k].kind, list[k].op) :
             k \in {j \in DOMAIN list : list[j].kind # "C" /\ list[j].fn # "riscv_illegal_insn"}}

CSlotsOf(list) ==
    UNION {Slots(list[k].kind, list[k].op) : k \in {j \in DOMAIN list : list[j].kind = "C"}}

\* C2: after decoder initialisation and any sequence of extension initialisers
\* and F/D enable/disable calls, every 9-bit identifier of the full-width table
\* and every 5-bit identifier of the compressed table resolves to a defined
\* handler, the illegal-instruction handler of that table where no extension
\* installed the slot.
C2_LookupTotal ==
    decoder = "ready" =>
        LET calls == CallsOf(exts, fpu_f, fpu_d)
            full == FullSlotsOf(calls)
            comp == CSlotsOf(calls)
        IN  /\ DOMAIN opcodes = 0 .. 511
            /\ DOMAIN opcodes_c = 0 .. 31
            /\ \A id \in 0 .. 511 :
                  /\ opcodes[id] \notin {"NULL", "riscv_c_illegal_insn"}
                  /\ id \notin full => opcodes[id] = "riscv_illegal_insn"
            /\ \A id \in 0 .. 31 :
                  /\ opcodes_c[id] \notin {"NULL", "riscv_illegal_insn"}
                  /\ id \notin comp => opcodes_c[id] = "riscv_c_illegal_insn"

C2_Witness ==
    /\ decoder = "ready"
    /\ exts = {"i", "c", "m", "a"}
    /\ fpu_f = "off"
    /\ fpu_d = "on"
    /\ opcodes[511] = "riscv_illegal_insn"
    /\ opcodes[\H41] = "riscv_illegal_insn"
    /\ opcodes_c[\H10] = "riscv_c_illegal_insn"

\* every identifier of one width with the installer that takes it
Identifiers == CallsOf({"i", "c", "m", "a"}, "on", "on") \o << E("C", RVC_RESERVED1, "reserved") >>

\* C9: for one width, the slot sets the installers write for two distinct
\* identifiers are disjoint, so the tables depend only on which initialisers and
\* enables ran, not on their order.
C9_OwnSlotsOnly ==
    /\ \A j, k \in DOMAIN Identifiers :
          j # k /\ (Identifiers[j].kind = "C") = (Identifiers[k].kind = "C") =>
              Slots(Identifiers[j].kind, Identifiers[j].op)
                  \cap Slots(Identifiers[k].kind, Identifiers[k].op) = {}
    /\ decoder = "ready" =>
          Tables = InstallAll([full |-> [i \in 0 .. 511 |-> "riscv_illegal_insn"],
                               c |-> [i \in 0 .. 31 |-> "riscv_c_illegal_insn"]],
                              CallsOf(exts, fpu_f, fpu_d))

C9_Witness ==
    /\ exts = {"i", "c", "m", "a"}
    /\ fpu_f = "on"
    /\ fpu_d = "on"
    /\ opcodes[\HC] = "riscv_i_add_sub"
    /\ opcodes[\H10C] = "riscv_m_mul"
    /\ opcodes[\H1B + \H1E0] = "riscv_i_jal"
    /\ opcodes[\H104] = "riscv_i_addi"

(***************************************************************************)
(* Properties of the dispatch loop (SpecRun, FairSpecRun)                  *)
(***************************************************************************)

\* C3: the single-precision load (flw, identifier 0x41) resolves to the
\* illegal-instruction handler, and executing it raises a trap, exactly when the
\* last F call disabled F; it resolves to the real load handler exactly when the
\* last F call enabled F.
C3_FlwFollowsLastEnable ==
    decoder = "ready" =>
        /\ fpu_f = "on" <=> Lookup(\H2007) = "riscv_f_flw"
        /\ fpu_f = "off" => Lookup(\H2007) = "riscv_illegal_insn"
        /\ fpu_f # "none" /\ Lookup(\H2007) = "riscv_illegal_insn" => fpu_f = "off"
        /\ stage = "boundary" /\ fetched > 0 /\ insn = \H2007 /\ fpu_f = "off" => trap

C3_Witness ==
    /\ fpu_f = "off"
    /\ fpu_d = "on"
    /\ stage = "boundary"
    /\ fetched = 2
    /\ insn = \H2007
    /\ trap

====
